---- MODULE Spec2Model ----
(***************************************************************************)
(* Model of the UI stack reconciler of the frontend                        *)
(* (src/frontend/python/ui_stack_manager.py, menu.py).                     *)
(*                                                                         *)
(* A controller (MenuControl) is an object on the heap `elements`; its     *)
(* identity is its index there.  The live stack is a sequence of UiEntry   *)
(* records (key, element).  The action Tick runs UiStackManager.tick()      *)
(* on a snapshot chosen by the server; the tick either returns normally or *)
(* leaves by an exception (IndexError, RuntimeError), in which case the    *)
(* mutations made so far stay and the following passes are not run.        *)
(* Calls into the widget toolkit are recorded in logs, not interpreted.    *)
(* The logs describe the tick that ran last; Idle drops them when the      *)
(* callback has returned to the main loop, TickUnchanged is the next poll  *)
(* finding the server's stack as the last poll left it.                    *)
(*                                                                         *)
(* ClientSpec puts the manager inside Client.tick (client.py) with the     *)
(* polling thread, the main loop's queue and the service provider          *)
(* (service_provider.py).  MenuSpec and MenuUpdateSpec are one MenuControl *)
(* with its user, without and with payload updates.                        *)
(***************************************************************************)
EXTENDS Integers, Sequences, FiniteSets, TLC

\* Bound of the model: the number of controllers ever constructed.
MaxElems == 3
\* Bounds of the client model: CallAfter events waiting in the main loop's
\* queue, and service requests waiting at the server.
MaxCalls == 2
MaxRequests == 2
\* Bound of the menu model: the items of a menu.
MaxItems == 2

Keys == {"a", "b", "c"}
Types == {"menu", "other"}

\* Python's None, for last_top_key.
None == "None"

\* Objects that can be a wx parent: the root window, the panel of a
\* controller, or (as fixup_parents passes it) the controller itself.
Window == [kind |-> "window", id |-> 0]
Panel(e) == [kind |-> "panel", id |-> e]
Element(e) == [kind |-> "element", id |-> e]
\* No focus call has been made yet.
NoTarget == [kind |-> "none", id |-> 0]

VARIABLES
    stack,          \* self.stack: sequence of UiEntry [key, element]
    last_top_key,   \* self.last_top_key
    elements,       \* every MenuControl constructed so far, by identity
    fetched,        \* the UiStack fetched by the last tick
    outcome,        \* how the last tick ended: "none" before the first tick
    old_stack,      \* self.stack when the last tick started
    old_top_key,    \* self.last_top_key when the last tick started
    destroyed,      \* elements whose destroy() the last tick called, in order
    constructed,    \* MenuControl constructions of the last tick, in order
    reparented,     \* panel.SetParent calls of the last tick, in order
    focused,        \* focus targets of the last tick, in order
    refetched,      \* TRUE when the last tick fetched what the tick before it fetched
    focus_owner     \* the target of the latest SetFocus()/focus() call of any tick

stack_vars == <<stack, last_top_key, elements, fetched, outcome, old_stack,
                old_top_key, destroyed, constructed, reparented, focused,
                refetched, focus_owner>>

\* The client around the manager (client.py, service_provider.py).
VARIABLES
    poll_pc,          \* the polling thread: "call_after" or "sleep"
    pending_calls,    \* callables posted by wx.CallAfter and not yet run
    running,          \* the threads that are inside Client.tick, in call order
    main_pc,          \* the main thread: "loop", "ui_stack_manager", "service_provider"
    requests,         \* the server's queue of service requests
    pending_at_start, \* the requests that waited when the last Client.tick began
    dispatched        \* the service calls of the last Client.tick, in order

client_vars == <<poll_pc, pending_calls, running, main_pc, requests,
                 pending_at_start, dispatched>>

\* One menu controller on its own (menu.py).
VARIABLES
    menu,       \* the MenuControl: key, proto, what __init__ built and bound, selection
    handler,    \* the event handler that ran last and how it ended
    transport   \* the transport calls that handler made, in order

menu_vars == <<menu, handler, transport>>

vars == <<stack_vars, client_vars, menu_vars>>

\* A UiStack message: entries with a key and the name of the set oneof field.
RECURSIVE SeqsUpTo(_, _)
SeqsUpTo(S, n) ==
    IF n = 0 THEN {<<>>}
    ELSE LET shorter == SeqsUpTo(S, n - 1)
         IN shorter \cup {Append(s, x) : s \in {t \in shorter : Len(t) = n - 1}, x \in S}

UiStackEntry == [key : Keys, type : Types]
\* Keys are unique within a snapshot (the server's stack holds each element once).
UiStacks ==
    {s \in SeqsUpTo(UiStackEntry, Cardinality(Keys)) :
        \A j, k \in 1..Len(s) : s[j].key = s[k].key => j = k}

AllMenuEntries(s) == \A j \in 1..Len(s) : s[j].type = "menu"
KeysOf(s) == {s[j].key : j \in 1..Len(s)}
KeySeq(s) == [j \in 1..Len(s) |-> s[j].key]

\* MenuControl.__init__: the fields the reconciler depends on.
MenuControl(parent, key) ==
    [key |-> key, current_parent |-> parent, destroy_calls |-> 0]

\* MenuControl.destroy: one panel.Destroy() call.
destroy(el) == [el EXCEPT !.destroy_calls = @ + 1]

\* MenuControl.set_parent_if_changed: identity comparison, then assignment.
set_parent_if_changed(el, new_parent) ==
    IF el.current_parent # new_parent
    THEN [el EXCEPT !.current_parent = new_parent]
    ELSE el

\* The manager while a tick runs: its fields, the heap, the call logs and
\* the pending exception ("None" when there is none).
Manager(stk, ltk, els) ==
    [stack |-> stk, last_top_key |-> ltk, elements |-> els,
     destroyed |-> <<>>, constructed |-> <<>>, reparented |-> <<>>,
     focused |-> <<>>, error |-> None]

\* UiStackManager.remove_missing_elements
RECURSIVE remove_loop(_, _, _, _)
remove_loop(m, seen_elements, j, new_stack) ==
    IF j > Len(m.stack) THEN [m EXCEPT !.stack = new_stack]
    ELSE LET elem == m.stack[j]
         IN IF elem.key \notin seen_elements
            THEN remove_loop(
                     [m EXCEPT !.elements[elem.element] = destroy(@),
                               !.destroyed = Append(@, elem.element)],
                     seen_elements, j + 1, new_stack)
            ELSE remove_loop(m, seen_elements, j + 1, Append(new_stack, elem))

\* Faulty variants of remove_missing_elements: line 56 (self.stack =
\* new_stack) left out, and the membership test of line 52 inverted.
remove_missing_elements_no_assign(m, ui_stack) ==
    [remove_loop(m, KeysOf(ui_stack), 1, <<>>) EXCEPT !.stack = m.stack]

remove_missing_elements_inverted(m, ui_stack) ==
    remove_loop(m, Keys \ KeysOf(ui_stack), 1, <<>>)

remove_missing_elements(m, ui_stack) ==
    remove_loop(m, KeysOf(ui_stack), 1, <<>>)

\* Faulty variant of the inner loop: the comparison never matches (as when
\* the entry itself, not its key, is compared with the key).
seen_never(stk, key) == FALSE

\* The inner loop of insert_new_elements: is the key in self.stack?
seen(stk, key) == \E j \in 1..Len(stk) : stk[j].key = key

\* list.insert(i, x) with a 0-based i: positions past the end append.
list_insert(l, i, x) ==
    LET p == IF i > Len(l) THEN Len(l) ELSE i
    IN SubSeq(l, 1, p) \o <<x>> \o SubSeq(l, p + 1, Len(l))

\* UiStackManager.construct_element: the oneof dispatch.
construct_element(m, entry, parent, i) ==
    IF entry.type = "menu"
    THEN LET id == Len(m.elements) + 1
         IN [m EXCEPT !.elements = Append(@, MenuControl(parent, entry.key)),
                      !.constructed = Append(@, [element |-> id, key |-> entry.key,
                                                 parent |-> parent, i |-> i]),
                      !.stack = list_insert(@, i, [key |-> entry.key, element |-> id])]
    ELSE [m EXCEPT !.error = "RuntimeError"]

\* The parent argument of line 44: self.stack[i].element.panel if i > 0
\* else self.window.  i is the 0-based index, so self.stack[i] is the
\* (i+1)-th entry; an index past the end raises IndexError.
parent_lookup_fails(m, i) == i > 0 /\ i + 1 > Len(m.stack)
parent_lookup(m, i) ==
    IF i > 0 THEN Panel(m.stack[i + 1].element) ELSE Window

\* UiStackManager.insert_new_elements; i is the 0-based loop index.
RECURSIVE insert_loop(_, _, _)
insert_loop(m, ui_stack, i) ==
    IF i >= Len(ui_stack) \/ m.error # None THEN m
    ELSE LET entry == ui_stack[i + 1]
         IN IF seen(m.stack, entry.key)
            THEN insert_loop(m, ui_stack, i + 1)
            ELSE IF parent_lookup_fails(m, i)
                 THEN [m EXCEPT !.error = "IndexError"]
                 ELSE insert_loop(
                          construct_element(m, entry, parent_lookup(m, i), i),
                          ui_stack, i + 1)

insert_new_elements(m, ui_stack) == insert_loop(m, ui_stack, 0)

\* UiStackManager.fixup_parents
RECURSIVE fixup_loop(_, _, _)
fixup_loop(m, j, parent) ==
    IF j > Len(m.stack) THEN m
    ELSE LET id == m.stack[j].element
             el == m.elements[id]
             changed == set_parent_if_changed(el, parent)
         IN fixup_loop(
                [m EXCEPT !.elements[id] = changed,
                          !.reparented = IF changed # el
                                         THEN Append(@, [element |-> id, parent |-> parent])
                                         ELSE @],
                j + 1, Element(id))

fixup_parents(m) == fixup_loop(m, 1, Window)

\* Faulty variant of the focus pass: the guard of line 28 left out.
focus_pass_unguarded(m) ==
    LET new_top_key == IF Len(m.stack) > 0 THEN m.stack[Len(m.stack)].key ELSE None
        new_top_target == IF Len(m.stack) > 0
                          THEN Element(m.stack[Len(m.stack)].element)
                          ELSE Window
    IN [m EXCEPT !.focused = Append(@, new_top_target),
                 !.last_top_key = new_top_key]

\* Faulty variant of the focus pass: line 30 (the update of last_top_key)
\* left out.
focus_pass_no_memo(m) ==
    LET new_top_key == IF Len(m.stack) > 0 THEN m.stack[Len(m.stack)].key ELSE None
        new_top_target == IF Len(m.stack) > 0
                          THEN Element(m.stack[Len(m.stack)].element)
                          ELSE Window
    IN [m EXCEPT !.focused = IF m.last_top_key # new_top_key
                             THEN Append(@, new_top_target) ELSE @]

\* Lines 23-30 of tick: the focus pass.
focus_pass(m) ==
    LET new_top_key == IF Len(m.stack) > 0 THEN m.stack[Len(m.stack)].key ELSE None
        new_top_target == IF Len(m.stack) > 0
                          THEN Element(m.stack[Len(m.stack)].element)
                          ELSE Window
    IN [m EXCEPT !.focused = IF m.last_top_key # new_top_key
                             THEN Append(@, new_top_target) ELSE @,
                 !.last_top_key = new_top_key]

\* Faulty variant of tick: lines 20 and 21 swapped, insertion before removal.
tick_insert_first(m, ui_stack) ==
    LET inserted == insert_new_elements(m, ui_stack)
    IN IF inserted.error # None THEN inserted
       ELSE focus_pass(fixup_parents(remove_missing_elements(inserted, ui_stack)))

\* UiStackManager.tick; an exception of the insertion pass ends the tick.
tick(m, ui_stack) ==
    LET removed == remove_missing_elements(m, ui_stack)
        inserted == insert_new_elements(removed, ui_stack)
    IN IF inserted.error # None THEN inserted
       ELSE focus_pass(fixup_parents(inserted))

\* Menu payloads: items (their values; labels are only rendered) and can_cancel.
Values == {"v1", "v2"}
MenuProtos == [items : SeqsUpTo(Values, MaxItems), can_cancel : BOOLEAN]

\* MenuControl.__init__, lines 9-37: the list is filled from proto.items,
\* OK and activation are always bound, Cancel and the key handler only
\* when proto.can_cancel, and the first item is selected if there is one.
menu_init(proto, key) ==
    [key |-> key,
     proto |-> proto,
     list_items |-> Len(proto.items),
     bound |-> {"on_ok", "on_list_click"} \cup
               (IF proto.can_cancel THEN {"on_cancel", "on_list_key"} ELSE {}),
     selected |-> IF Len(proto.items) > 0 THEN 0 ELSE -1]

\* MenuControl.set_proto
set_proto(mc, proto) == [mc EXCEPT !.proto = proto]

\* What a handler did: its transport calls and the exception it raised.
Done(calls) == [calls |-> calls, error |-> None]
Raise(error) == [calls |-> <<>>, error |-> error]

\* Faulty variant of do_ok: the first item's value instead of the selected one's.
do_ok_first(mc) ==
    IF mc.selected = -1 THEN Done(<<>>)
    ELSE IF Len(mc.proto.items) = 0 THEN Raise("IndexError")
    ELSE Done(<<[op |-> "ui_do_complete", key |-> mc.key,
                 value |-> mc.proto.items[1]]>>)

\* MenuControl.do_ok; selected is the 0-based GetFirstSelected().
do_ok(mc) ==
    IF mc.selected = -1 THEN Done(<<>>)
    ELSE IF mc.selected >= Len(mc.proto.items) THEN Raise("IndexError")
    ELSE Done(<<[op |-> "ui_do_complete", key |-> mc.key,
                 value |-> mc.proto.items[mc.selected + 1]]>>)

\* MenuControl.do_cancel
do_cancel(mc) ==
    IF ~mc.proto.can_cancel THEN Raise("AssertionError")
    ELSE Done(<<[op |-> "ui_do_cancel", key |-> mc.key, value |-> None]>>)

\* MenuControl.on_list_key
on_list_key(mc, kc) ==
    IF kc = "WXK_ESCAPE" /\ mc.proto.can_cancel THEN do_cancel(mc) ELSE Done(<<>>)

\* No menu: the value of the menu variables in the other specifications.
NoMenu == menu_init([items |-> <<>>, can_cancel |-> FALSE], "a")
NoHandler == [name |-> "none", error |-> None]

ClientInit ==
    /\ poll_pc = "call_after"
    /\ pending_calls = 0
    /\ running = <<>>
    /\ main_pc = "loop"
    /\ requests = <<>>
    /\ pending_at_start = <<>>
    /\ dispatched = <<>>

Init ==
    /\ ClientInit
    /\ menu = NoMenu
    /\ handler = NoHandler
    /\ transport = <<>>
    /\ stack = <<>>
    /\ last_top_key = None
    /\ elements = <<>>
    /\ fetched = <<>>
    /\ outcome = "none"
    /\ old_stack = <<>>
    /\ old_top_key = None
    /\ destroyed = <<>>
    /\ constructed = <<>>
    /\ reparented = <<>>
    /\ focused = <<>>
    /\ refetched = FALSE
    /\ focus_owner = NoTarget

\* One run of UiStackManager.tick() on ui_stack, with what it did recorded.
RunTick(ui_stack) ==
    LET m == tick(Manager(stack, last_top_key, elements), ui_stack)
    IN /\ Len(m.elements) <= MaxElems
       /\ stack' = m.stack
       /\ last_top_key' = m.last_top_key
       /\ elements' = m.elements
       /\ fetched' = ui_stack
       /\ outcome' = IF m.error = None THEN "ok" ELSE m.error
       /\ old_stack' = stack
       /\ old_top_key' = last_top_key
       /\ destroyed' = m.destroyed
       /\ constructed' = m.constructed
       /\ reparented' = m.reparented
       /\ focused' = m.focused
       /\ focus_owner' = IF Len(m.focused) > 0
                         THEN m.focused[Len(m.focused)] ELSE focus_owner

\* The polling callback: a tick on whatever the server's stack is now.
Tick ==
    /\ outcome = "none"
    /\ \E ui_stack \in UiStacks : RunTick(ui_stack)
    /\ refetched' = FALSE
    /\ UNCHANGED <<client_vars, menu_vars>>

\* The next poll, 50ms later, with the server's stack unchanged.
TickUnchanged ==
    /\ outcome # "none"
    /\ RunTick(fetched)
    /\ refetched' = TRUE
    /\ UNCHANGED <<client_vars, menu_vars>>

\* The logs of the last tick are dropped; the manager keeps its fields.
ResetLogs ==
    /\ fetched' = <<>>
    /\ outcome' = "none"
    /\ old_stack' = <<>>
    /\ old_top_key' = None
    /\ destroyed' = <<>>
    /\ constructed' = <<>>
    /\ reparented' = <<>>
    /\ focused' = <<>>
    /\ refetched' = FALSE
    /\ UNCHANGED <<stack, last_top_key, elements, focus_owner>>

\* The callback has returned (or its exception was reported) and the main
\* loop waits for the next poll.
Idle ==
    /\ outcome # "none"
    /\ ResetLogs
    /\ UNCHANGED <<client_vars, menu_vars>>

Next == Tick \/ TickUnchanged \/ Idle

Spec == Init /\ [][Next]_vars

(***************************************************************************)
(* The client: the polling thread posts Client.tick to the main loop with  *)
(* wx.CallAfter every 50ms; the main loop runs one posted callable at a    *)
(* time; Client.tick runs the stack manager's tick, then the service       *)
(* provider's.  The server enqueues service requests at any moment.        *)
(***************************************************************************)
ServiceKinds == {"speak", "shutdown"}

\* The snapshots of the client model: menus over two keys.
ClientStacks == {s \in UiStacks : KeysOf(s) \subseteq {"a", "b"} /\ AllMenuEntries(s)}

\* Faulty variant of polling_thread_fn: client.tick() called on the polling
\* thread itself instead of being posted.
polling_thread_fn_direct(calls, frames) ==
    [pending_calls |-> calls, running |-> Append(frames, "poller")]

\* polling_thread_fn, line 15: wx.CallAfter(lambda: client.tick()).
polling_thread_fn(calls, frames) ==
    [pending_calls |-> calls + 1, running |-> frames]

\* ServiceProvider.handle_request: the service a request is dispatched to.
handle_request(req) ==
    IF req = "speak" THEN <<"speak">>
    ELSE IF req = "shutdown" THEN <<"shutdown">>
    ELSE <<>>

\* ServiceProvider.tick: the whole dequeued batch, in order.
RECURSIVE service_provider_tick(_)
service_provider_tick(batch) ==
    IF batch = <<>> THEN <<>>
    ELSE handle_request(Head(batch)) \o service_provider_tick(Tail(batch))

\* The polling thread posts a tick.
PollCallAfter ==
    /\ poll_pc = "call_after"
    /\ pending_calls < MaxCalls
    /\ LET r == polling_thread_fn(pending_calls, running)
       IN /\ pending_calls' = r.pending_calls
          /\ running' = r.running
    /\ poll_pc' = "sleep"
    /\ UNCHANGED <<stack_vars, menu_vars, main_pc, requests, pending_at_start, dispatched>>

\* time.sleep(0.05) is over.
PollSleep ==
    /\ poll_pc = "sleep"
    /\ poll_pc' = "call_after"
    /\ UNCHANGED <<stack_vars, menu_vars, pending_calls, running, main_pc, requests,
                   pending_at_start, dispatched>>

\* The server enqueues a service request.
Enqueue ==
    /\ Len(requests) < MaxRequests
    /\ \E req \in ServiceKinds : requests' = Append(requests, req)
    /\ UNCHANGED <<stack_vars, menu_vars, poll_pc, pending_calls, running, main_pc,
                   pending_at_start, dispatched>>

\* The main loop takes the next posted callable: Client.tick begins.
Dispatch ==
    /\ main_pc = "loop"
    /\ pending_calls > 0
    /\ pending_calls' = pending_calls - 1
    /\ running' = Append(running, "main")
    /\ main_pc' = "ui_stack_manager"
    /\ pending_at_start' = requests
    /\ dispatched' = <<>>
    /\ ResetLogs
    /\ UNCHANGED <<poll_pc, requests, menu_vars>>

\* Client.tick, line 28: self.ui_stack_manager.tick().  An exception leaves
\* Client.tick at once, back to the main loop.
StackTick ==
    /\ main_pc = "ui_stack_manager"
    /\ \E ui_stack \in ClientStacks : RunTick(ui_stack)
    /\ refetched' = FALSE
    /\ IF outcome' = "ok"
       THEN main_pc' = "service_provider" /\ running' = running
       ELSE main_pc' = "loop" /\ running' = SubSeq(running, 1, Len(running) - 1)
    /\ UNCHANGED <<poll_pc, pending_calls, requests, pending_at_start, dispatched, menu_vars>>

\* Client.tick, line 29: self.service_provider.tick(), then the return.
ServiceTick ==
    /\ main_pc = "service_provider"
    /\ dispatched' = service_provider_tick(requests)
    /\ requests' = <<>>
    /\ main_pc' = "loop"
    /\ running' = SubSeq(running, 1, Len(running) - 1)
    /\ UNCHANGED <<stack_vars, menu_vars, poll_pc, pending_calls, pending_at_start>>

ClientNext ==
    PollCallAfter \/ PollSleep \/ Enqueue \/ Dispatch \/ StackTick \/ ServiceTick

ClientSpec == Init /\ [][ClientNext]_vars

(***************************************************************************)
(* One menu and its user: the user changes the selection and triggers the  *)
(* handlers that __init__ bound; MenuUpdateSpec adds payload updates.      *)
(***************************************************************************)
MenuInit ==
    /\ ClientInit
    /\ stack = <<>>
    /\ last_top_key = None
    /\ elements = <<>>
    /\ fetched = <<>>
    /\ outcome = "none"
    /\ old_stack = <<>>
    /\ old_top_key = None
    /\ destroyed = <<>>
    /\ constructed = <<>>
    /\ reparented = <<>>
    /\ focused = <<>>
    /\ refetched = FALSE
    /\ focus_owner = NoTarget
    /\ \E proto \in MenuProtos, key \in Keys : menu = menu_init(proto, key)
    /\ handler = NoHandler
    /\ transport = <<>>

\* A handler ran: what it called and how it ended; the menu is as it was.
Handled(name, result) ==
    /\ handler' = [name |-> name, error |-> result.error]
    /\ transport' = result.calls
    /\ UNCHANGED <<menu, stack_vars, client_vars>>

\* The user moves the selection of the list, or clears it.
UserSelect ==
    /\ \E sel \in -1..(menu.list_items - 1) :
           /\ sel # menu.selected
           /\ menu' = [menu EXCEPT !.selected = sel]
    /\ handler' = NoHandler
    /\ transport' = <<>>
    /\ UNCHANGED <<stack_vars, client_vars>>

\* MenuControl.on_ok: the OK button.
OnOk == "on_ok" \in menu.bound /\ Handled("on_ok", do_ok(menu))

\* MenuControl.on_list_click: an item of the list is activated.
OnListClick == "on_list_click" \in menu.bound /\ Handled("on_list_click", do_ok(menu))

\* MenuControl.on_cancel: the Cancel button.
OnCancel == "on_cancel" \in menu.bound /\ Handled("on_cancel", do_cancel(menu))

\* MenuControl.on_list_key: a key is pressed in the list.
OnListKey ==
    /\ "on_list_key" \in menu.bound
    /\ \E kc \in {"WXK_ESCAPE", "WXK_RETURN"} : Handled("on_list_key", on_list_key(menu, kc))

\* A payload update for the key of the menu.
SetProto ==
    /\ \E proto \in MenuProtos :
           /\ proto # menu.proto
           /\ menu' = set_proto(menu, proto)
    /\ handler' = NoHandler
    /\ transport' = <<>>
    /\ UNCHANGED <<stack_vars, client_vars>>

MenuNext == UserSelect \/ OnOk \/ OnListClick \/ OnCancel \/ OnListKey

MenuSpec == MenuInit /\ [][MenuNext]_vars

MenuUpdateNext == MenuNext \/ SetProto

MenuUpdateSpec == MenuInit /\ [][MenuUpdateNext]_vars

(***************************************************************************)
(* Vocabulary of the properties.                                           *)
(***************************************************************************)
Ticked == outcome # "none"
Raised == outcome \in {"IndexError", "RuntimeError"}
AllMenu(s) == \A j \in 1..Len(s) : s[j].type = "menu"
Range(s) == {s[j] : j \in 1..Len(s)}
Index(s, key) == CHOOSE j \in 1..Len(s) : s[j].key = key
TopKey(s) == IF Len(s) > 0 THEN s[Len(s)].key ELSE None
Ids == DOMAIN elements

\* Each entry's parent is the controller before it, the window for the first.
Containment ==
    \A j \in 1..Len(stack) :
        elements[stack[j].element].current_parent =
            IF j = 1 THEN Window ELSE Element(stack[j - 1].element)

\* C1. Key-set convergence: after a tick on a snapshot (unique keys, every
\* entry of a recognized kind) the keys of the live stack are exactly the
\* keys of the snapshot.
C1_KeySetConvergence ==
    (Ticked /\ AllMenu(fetched)) => KeysOf(stack) = KeysOf(fetched)

\* C2. Pushing a screen on top: the live stack is non-empty and the snapshot
\* is its keys in order followed by one new key b.  Then the live stack is
\* the old entries followed by b, b's parent is the previous top controller,
\* focus() was called on b's controller and nothing was destroyed.
IsPush ==
    /\ Ticked
    /\ Len(old_stack) > 0
    /\ AllMenu(fetched)
    /\ Len(fetched) = Len(old_stack) + 1
    /\ SubSeq(KeySeq(fetched), 1, Len(old_stack)) = KeySeq(old_stack)

C2_PushOnTop ==
    IsPush =>
        /\ Len(stack) = Len(old_stack) + 1
        /\ SubSeq(stack, 1, Len(old_stack)) = old_stack
        /\ TopKey(stack) = TopKey(fetched)
        /\ elements[stack[Len(stack)].element].current_parent =
               Element(old_stack[Len(old_stack)].element)
        /\ focused = <<Element(stack[Len(stack)].element)>>
        /\ destroyed = <<>>

\* C3. Order preservation: after a tick the entries of the live stack are in
\* the order of their keys in the snapshot just applied.
C3_OrderPreservation ==
    (Ticked /\ AllMenu(fetched)) =>
        \A j, k \in 1..Len(stack) :
            (/\ j < k
             /\ stack[j].key \in KeysOf(fetched)
             /\ stack[k].key \in KeysOf(fetched))
                => Index(fetched, stack[j].key) < Index(fetched, stack[k].key)

\* C4. Containment consistency: after any tick each entry's current parent
\* is the controller of the entry before it, the root window for the first.
C4_ContainmentConsistency ==
    (Ticked /\ AllMenu(fetched)) => Containment

\* C5. Destroy-exactly-once: destroy() is called at most once on each
\* controller over all ticks, and a tick calls it only on controllers whose
\* key is not in the snapshot of that tick.
C5_DestroyAtMostOnce ==
    /\ \A id \in Ids : elements[id].destroy_calls <= 1
    /\ \A j \in 1..Len(destroyed) :
           /\ elements[destroyed[j]].key \notin KeysOf(fetched)
           /\ \A k \in 1..Len(destroyed) : destroyed[j] = destroyed[k] => j = k

\* A controller was destroyed by an earlier tick, the last tick destroyed
\* another one, and the first one's key is live again in a new controller.
C5_Witness ==
    /\ Len(destroyed) > 0
    /\ \E id \in Ids :
           /\ elements[id].destroy_calls = 1
           /\ id \notin Range(destroyed)
           /\ \E j \in 1..Len(stack) :
                  stack[j].key = elements[id].key /\ stack[j].element # id

\* C6. Focus transfer minimality: a tick moves the focus at most once, to at
\* most one target, and only when the top key after the tick differs from
\* the top key the previous tick recorded.
C6_FocusMinimality ==
    Ticked =>
        /\ Len(focused) <= 1
        /\ Len(focused) = 1 => TopKey(stack) # old_top_key

\* A tick that returned normally moved the focus from one controller to a
\* controller it had just constructed.
C6_Witness ==
    /\ outcome = "ok"
    /\ old_top_key # None
    /\ Len(focused) = 1
    /\ focused[1].kind = "element"
    /\ Len(constructed) > 0

\* C7. Empty-stack focus: the tick on an empty snapshot that empties the
\* live stack directs the focus to the root window exactly once, and the
\* following tick on a still empty snapshot does not direct it there again.
C7_EmptyStackFocus ==
    (Ticked /\ fetched = <<>>) =>
        /\ Len(old_stack) > 0 => focused = <<Window>>
        /\ refetched => focused = <<>>

\* C8. Identity preservation: a key live before the tick and present in the
\* snapshot keeps its controller: the same entry is in the live stack, it
\* was not destroyed, and no controller was constructed for its key.
C8_IdentityPreservation ==
    Ticked =>
        \A j \in 1..Len(old_stack) :
            old_stack[j].key \in KeysOf(fetched) =>
                /\ old_stack[j] \in Range(stack)
                /\ old_stack[j].element \notin Range(destroyed)
                /\ elements[old_stack[j].element].destroy_calls = 0
                /\ \A c \in Range(constructed) : c.key # old_stack[j].key

\* A tick kept one controller while it destroyed another and built a third.
C8_Witness ==
    /\ Ticked
    /\ Len(destroyed) > 0
    /\ Len(constructed) > 0
    /\ \E j \in 1..Len(old_stack) :
           old_stack[j].key \in KeysOf(fetched) /\ old_stack[j] \in Range(stack)

\* C9. Key uniqueness: in every state, also after a tick that raised, no two
\* entries of the live stack have the same key, and the controllers not yet
\* destroyed are exactly those of the live stack, one per key.
C9_KeyUniqueness ==
    /\ \A j, k \in 1..Len(stack) : stack[j].key = stack[k].key => j = k
    /\ \A id \in Ids :
           elements[id].destroy_calls = 0 =>
               [key |-> elements[id].key, element |-> id] \in Range(stack)

\* A tick raised after it had inserted a controller for a key whose earlier
\* controller had been destroyed, next to a controller that persisted.
C9_Witness ==
    /\ Raised
    /\ Len(stack) >= 2
    /\ Len(constructed) > 0
    /\ \E id \in Ids :
           /\ elements[id].destroy_calls = 1
           /\ \E j \in 1..Len(stack) : stack[j].key = elements[id].key

\* C10. Unrecognized tag is fatal: a tick whose snapshot has an entry of a
\* kind other than "menu" raises; it never returns normally.
C10_UnrecognizedTagFatal ==
    (Ticked /\ ~AllMenu(fetched)) => Raised

\* C14. Construction parent: a controller constructed for snapshot position
\* i gets the root window as parent when i = 0 and otherwise the controller
\* (or its panel) of the entry at position i-1 of the live stack at that
\* moment, and the lookup never raises IndexError.  Later insertions of the
\* same tick go to higher positions, so the entry that was at position i-1
\* is the entry at position i-1 when the tick ends (stack[c.i], 1-based).
C14_ConstructionParent ==
    (Ticked /\ AllMenu(fetched)) =>
        /\ outcome # "IndexError"
        /\ \A c \in Range(constructed) :
               IF c.i = 0
               THEN c.parent = Window
               ELSE c.parent \in {Element(stack[c.i].element),
                                  Panel(stack[c.i].element)}

\* The entries of the live stack that the last tick did not construct, and
\* the entries it found whose key is in the snapshot.
NotConstructed ==
    SelectSeq(stack, LAMBDA e : \A c \in Range(constructed) : c.element # e.element)
Survivors ==
    SelectSeq(old_stack, LAMBDA e : e.key \in KeysOf(fetched))

\* C15. Prompt removal: every entry whose key is absent from the snapshot of
\* a tick is destroyed and dropped in that tick, also when the tick raises
\* in the insertion pass, and the remaining entries keep their order.
C15_PromptRemoval ==
    Ticked =>
        /\ \A j \in 1..Len(old_stack) :
               old_stack[j].key \notin KeysOf(fetched) =>
                   /\ old_stack[j] \notin Range(stack)
                   /\ old_stack[j].element \in Range(destroyed)
                   /\ elements[old_stack[j].element].destroy_calls = 1
        /\ NotConstructed = Survivors

\* A tick raised after it had destroyed an entry and kept another.
C15_Witness ==
    /\ Raised
    /\ Len(destroyed) > 0
    /\ Len(Survivors) > 0
    /\ Len(Survivors) < Len(old_stack)

\* C16. No partial rendering on error: a tick that fails on an unrecognized
\* element tag has constructed no controller and inserted no entry.
C16_NoPartialRendering ==
    outcome = "RuntimeError" =>
        /\ constructed = <<>>
        /\ Range(stack) \subseteq Range(old_stack)

\* C17. Focus ownership: after a tick that returned normally the latest
\* focus target is the controller on top of the live stack, or the root
\* window when the tick emptied the stack; it is never a destroyed
\* controller.
C17_FocusOwnership ==
    outcome = "ok" =>
        /\ Len(stack) > 0 => focus_owner = Element(stack[Len(stack)].element)
        /\ (Len(stack) = 0 /\ Len(old_stack) > 0) => focus_owner = Window
        /\ focus_owner.kind = "element" =>
               elements[focus_owner.id].destroy_calls = 0

\* C18. Idempotence: a tick that returns normally on the snapshot the tick
\* before it fetched constructs and destroys nothing, reparents nothing,
\* makes no focus call and leaves the live stack and last_top_key as they
\* were.
C18_IdempotentTick ==
    (refetched /\ outcome = "ok") =>
        /\ constructed = <<>>
        /\ destroyed = <<>>
        /\ reparented = <<>>
        /\ focused = <<>>
        /\ stack = old_stack
        /\ last_top_key = old_top_key

\* The same snapshot was applied twice to a stack of at least two entries.
C18_Witness ==
    /\ refetched
    /\ outcome = "ok"
    /\ Len(stack) >= 2

Dead(id) == elements[id].destroy_calls > 0

\* The calls of the last tick touch no destroyed controller.
NoCallAfterDestroy ==
    /\ \A id \in Ids : elements[id].destroy_calls <= 1
    /\ \A t \in Range(focused) : t.kind = "element" => ~Dead(t.id)
    /\ \A r \in Range(reparented) :
           ~Dead(r.element) /\ (r.parent.id # 0 => ~Dead(r.parent.id))
    /\ \A c \in Range(constructed) : c.parent.id # 0 => ~Dead(c.parent.id)

\* C19. No use after destruction: a tick calls nothing on a destroyed
\* controller and passes none as a parent, and after the tick no live
\* entry's current parent is a destroyed controller.
C19_NoUseAfterDestroy ==
    (Ticked /\ AllMenu(fetched)) =>
        /\ NoCallAfterDestroy
        /\ \A j \in 1..Len(stack) :
               LET p == elements[stack[j].element].current_parent
               IN p.id # 0 => ~Dead(p.id)

\* C13. No overlapping reconciliation: at most one execution of Client.tick
\* is in progress and it is on the main thread; a step of the polling thread
\* leaves the manager and the controllers alone; a trigger that arrives
\* while a tick runs is queued and the running tick goes on undisturbed.
C13_NoOverlappingTicks ==
    /\ [](Len(running) <= 1 /\ \A j \in 1..Len(running) : running[j] = "main")
    /\ [][poll_pc' # poll_pc => UNCHANGED <<stack_vars, main_pc>>]_vars
    /\ [][(main_pc # "loop" /\ pending_calls' > pending_calls)
              => UNCHANGED <<stack_vars, main_pc, running>>]_vars

\* A tick is running on the main thread while another trigger waits.
C13_Witness ==
    /\ main_pc = "service_provider"
    /\ running = <<"main">>
    /\ pending_calls > 0
    /\ Len(stack) > 0

IsPrefix(p, q) == Len(p) <= Len(q) /\ SubSeq(q, 1, Len(p)) = p

\* C20. Service requests are drained every tick: when a Client.tick has
\* ended, whatever its reconciliation step did, the requests that waited
\* when it began have been dispatched, each once and in order.
C20_ServicesDrained ==
    (main_pc = "loop" /\ outcome # "none") =>
        IsPrefix(pending_at_start, dispatched)

Confirmed == handler.name \in {"on_ok", "on_list_click"}

\* C11. Menu confirmation: OK or activation with an item selected makes one
\* transport call, ui_do_complete(key of the controller, value of the
\* selected item); with no item selected it makes no call and raises
\* nothing; a confirmation changes nothing of the menu.
C11_MenuConfirmation ==
    /\ [](Confirmed =>
              IF menu.selected = -1
              THEN transport = <<>> /\ handler.error = None
              ELSE /\ handler.error = None
                   /\ transport = <<[op |-> "ui_do_complete", key |-> menu.key,
                                     value |-> menu.proto.items[menu.selected + 1]]>>)
    /\ [][(handler' # handler /\ handler'.name \in {"on_ok", "on_list_click"})
              => menu' = menu]_vars

\* The second item of a menu was selected and confirmed by activation.
C11_Witness ==
    /\ handler.name = "on_list_click"
    /\ menu.selected = 1
    /\ Len(transport) = 1

\* C12. Cancellation is unreachable when not permitted: whatever the user
\* does and whatever payload updates arrive, do_cancel is never entered with
\* can_cancel false (its assertion never fails), and a menu built with
\* can_cancel false has neither the Cancel handler nor the key handler.
C12_CancelUnreachable ==
    /\ handler.error # "AssertionError"
    /\ handler.name \in {"on_cancel", "on_list_key"} => "on_cancel" \in menu.bound

====
